---- MODULE Spec2Model ----
(***************************************************************************)
(* Model of football_dataset/functions/project_functions_classes.py:       *)
(* Team, MatchPlayers and MatchPlayers.Player.                             *)
(*                                                                         *)
(* A Python value is a record [kind, num, den, items]:                     *)
(*   kind = "num"   the rational num/den (den is 1 until a division by 10) *)
(*   kind = "nan"   float NaN                                              *)
(*   kind = "dict"  a dict {label: value}, items the set of <<label, v>>   *)
(*   kind = "KeyError" / "TypeError"  the evaluation raised that exception *)
(* A DataFrame is [columns, rows], rows a sequence of [index, row] with    *)
(* row a function from column name to value, in frame order.               *)
(***************************************************************************)
EXTENDS Integers, Sequences, FiniteSets, TLC

VARIABLES
    player_data,   \* the player attribute table handed to get_player_attributes
    team_data,     \* the team attribute table handed to Team.get_data
    date,          \* the cutoff date handed to the lookups
    player,        \* a stand-alone MatchPlayers.Player object
    team,          \* a Team object
    latest_entry,  \* what Team.get_latest_entry returned last
    lpc,           \* which lookups have been called on player and team
    data,          \* the match row (a Series) handed to MatchPlayers.get_data
    match_data,    \* MatchPlayers.match_data
    home_player_pos, \* MatchPlayers.home_player_pos
    away_player_pos, \* MatchPlayers.away_player_pos
    home_players,  \* MatchPlayers.home_players: {"players": [...], "goaly": Player}
    away_players,  \* MatchPlayers.away_players
    difference,    \* what calculate_attribute_difference returned last
    atts,          \* what export_player_attributes returned last
    how,           \* the mode of that export
    raised,        \* the exception a MatchPlayers method let escape, or "none"
    pc,            \* the extraction step the MatchPlayers object has completed
    second         \* a second MatchPlayers object, processed alongside the first

lookup_vars == <<player_data, team_data, date, player, team, latest_entry, lpc>>

\* second is a second MatchPlayers object with its own match row: the record of
\* its fields data, match_data, home_player_pos, away_player_pos, home_players,
\* away_players, atts, how, raised and pc
match_vars == <<data, match_data, home_player_pos, away_player_pos, home_players,
                away_players, difference, atts, how, raised, pc>>

vars == <<lookup_vars, match_vars, second>>

----------------------------------------------------------------------------
(* Python values *)

Num(n) == [kind |-> "num", num |-> n, den |-> 1, items |-> {}]

NaN == [kind |-> "nan", num |-> 0, den |-> 1, items |-> {}]

Dict(S) == [kind |-> "dict", num |-> 0, den |-> 1, items |-> S]

KeyError == [kind |-> "KeyError", num |-> 0, den |-> 1, items |-> {}]

TypeError == [kind |-> "TypeError", num |-> 0, den |-> 1, items |-> {}]

IsExc(v) == v.kind \in {"KeyError", "TypeError"}

\* a == b on scalars: NaN equals nothing, itself included
EqVal(a, b) == a.kind = "num" /\ b.kind = "num" /\ a.num * b.den = b.num * a.den

\* a < b on scalars: any comparison with NaN is False
LtVal(a, b) == a.kind = "num" /\ b.kind = "num" /\ a.num * b.den < b.num * a.den

\* a + b: a dict operand raises TypeError, NaN propagates
Add(a, b) ==
    IF IsExc(a) THEN a
    ELSE IF IsExc(b) THEN b
    ELSE IF a.kind = "dict" \/ b.kind = "dict" THEN TypeError
    ELSE IF a.kind = "nan" \/ b.kind = "nan" THEN NaN
    ELSE [kind |-> "num", num |-> a.num * b.den + b.num * a.den,
          den |-> a.den * b.den, items |-> {}]

\* a - b
Sub(a, b) ==
    IF IsExc(a) THEN a
    ELSE IF IsExc(b) THEN b
    ELSE IF a.kind = "dict" \/ b.kind = "dict" THEN TypeError
    ELSE IF a.kind = "nan" \/ b.kind = "nan" THEN NaN
    ELSE [kind |-> "num", num |-> a.num * b.den - b.num * a.den,
          den |-> a.den * b.den, items |-> {}]

\* a / 10
Div10(a) ==
    IF IsExc(a) THEN a
    ELSE IF a.kind = "dict" THEN TypeError
    ELSE IF a.kind = "nan" THEN NaN
    ELSE [kind |-> "num", num |-> a.num, den |-> a.den * 10, items |-> {}]

\* d[k]
GetItem(d, k) == IF k \in DOMAIN d THEN d[k] ELSE KeyError

\* d[k] = v
Put(d, k, v) == [x \in DOMAIN d \cup {k} |-> IF x = k THEN v ELSE d[x]]

\* what "try: val = e except: val = np.nan" leaves in val
OrNaN(v) == IF IsExc(v) THEN NaN ELSE v

----------------------------------------------------------------------------
(* DataFrames. A boolean-mask selection df[mask] keeps the rows the mask holds *)
(* for, with their index labels and in their order.                           *)

NoneFrame == [columns |-> {}, rows |-> <<>>]

RECURSIVE SeqMaxNum(_, _)
SeqMaxNum(rows, c) ==
    IF Len(rows) = 1 THEN rows[1].row[c].num
    ELSE LET m == SeqMaxNum(Tail(rows), c)
         IN IF rows[1].row[c].num > m THEN rows[1].row[c].num ELSE m

\* df[c].max(): NaN on an empty column
ColMax(df, c) == IF df.rows = <<>> THEN NaN ELSE Num(SeqMaxNum(df.rows, c))

\* DataFrame.to_dict(): {column: {index label: value}}
FrameToDict(df) ==
    [c \in df.columns |-> Dict({<<df.rows[i].index, df.rows[i].row[c]>> : i \in 1..Len(df.rows)})]

\* DataFrame.squeeze().to_dict() of a frame of two or more columns (the id column
\* and "date" are always there): one row squeezes to a Series, whose to_dict() is
\* {column: value}; any other number of rows, zero included, leaves the frame as
\* it is, whose to_dict() is {column: {index label: value}}.
SqueezeToDict(df) ==
    IF Len(df.rows) = 1 THEN [c \in df.columns |-> df.rows[1].row[c]]
    ELSE FrameToDict(df)

----------------------------------------------------------------------------
(* Snapshot lookup: MatchPlayers.Player.get_player_attributes, Team.get_data, *)
(* Team.get_latest_entry                                                      *)

\* data.loc[data[id_name] == id_code]
EntriesOfId(df, id_name, id_code) ==
    [columns |-> df.columns,
     rows |-> SelectSeq(df.rows, LAMBDA r : EqVal(r.row[id_name], Num(id_code)))]

\* Mutant: the filter keeps the entries dated at the cutoff too (<=)
EntriesUpToDate(entries, d) ==
    [columns |-> entries.columns,
     rows |-> SelectSeq(entries.rows, LAMBDA r : ~LtVal(Num(d), r.row["date"]))]

\* entries.loc[entries["date"] < date]
EntriesBeforeDate(entries, d) ==
    [columns |-> entries.columns,
     rows |-> SelectSeq(entries.rows, LAMBDA r : LtVal(r.row["date"], Num(d)))]

\* entries_before_date[entries_before_date["date"] == entries_before_date["date"].max()]
LatestRows(entries_before_date) ==
    [columns |-> entries_before_date.columns,
     rows |-> SelectSeq(entries_before_date.rows,
                        LAMBDA r : EqVal(r.row["date"], ColMax(entries_before_date, "date")))]

\* The dict Player.get_player_attributes stores in self.attributes
PlayerAttributes(df, d, player_id, player_id_name) ==
    SqueezeToDict(LatestRows(EntriesBeforeDate(EntriesOfId(df, player_id_name, player_id), d)))

\* df[[merge_id] + cols].set_index(merge_id)
SelectSetIndex(df, merge_id, cols) ==
    [columns |-> cols,
     rows |-> [i \in 1..Len(df.rows) |->
                  [index |-> df.rows[i].row[merge_id].num,
                   row |-> [c \in cols |-> df.rows[i].row[c]]]]]

\* df.reindex([id_code]) of an empty frame: one row labelled id_code, all NaN
Reindex(df, id_code) ==
    [columns |-> df.columns,
     rows |-> << [index |-> id_code, row |-> [c \in df.columns |-> NaN]] >>]

\* The frame Team.get_latest_entry returns
TeamLatestEntry(attribute_entries, id_code, d, cols, merge_id) ==
    LET latest == SelectSetIndex(LatestRows(EntriesBeforeDate(attribute_entries, d)),
                                 merge_id, cols)
    IN IF Len(latest.rows) = 0 THEN Reindex(latest, id_code) ELSE latest

\* Player.attributes before get_player_attributes has run (the attribute is unset)
NoAttributes == [c \in {} |-> NaN]

\* MatchPlayers.Player.__init__
NewPlayer(player_id) == [player_id |-> player_id, attributes |-> NoAttributes]

\* Team.__init__
NewTeam(id_code) == [id_code |-> id_code, attribute_entries |-> NoneFrame]

----------------------------------------------------------------------------
(* MatchPlayers *)

\* np.arange(1, 12): the slots of a side
NumSlots == 11

Slots == 1..NumSlots

EmptyDict == [k \in {} |-> 0]

\* "home_player_X" + str(i) and the like
Col(prefix, i) == prefix \o ToString(i)

\* The slots get_player_positions fills before a missing position field raises
\* KeyError; NumSlots + 1 when no field is missing.
HasPos(md, side, i) ==
    /\ Col(side \o "_player_X", i) \in DOMAIN md
    /\ Col(side \o "_player_Y", i) \in DOMAIN md

FirstMissing(md) ==
    LET bad == {i \in Slots : ~HasPos(md, "home", i) \/ ~HasPos(md, "away", i)}
    IN IF bad = {} THEN NumSlots + 1 ELSE CHOOSE i \in bad : \A j \in bad : i <= j

\* Mutant: the pair is stored as (Y, X)
PosMapYX(md, side, n) ==
    [i \in 1..n |-> <<md[Col(side \o "_player_Y", i)], md[Col(side \o "_player_X", i)]>>]

\* {i: (match_data[side + "_player_X" + str(i)], match_data[side + "_player_Y" + str(i)])}
PosMap(md, side, n) ==
    [i \in 1..n |-> <<md[Col(side \o "_player_X", i)], md[Col(side \o "_player_Y", i)]>>]

\* The position maps get_player_positions leaves behind
HomePositions(md) ==
    LET f == FirstMissing(md)
    IN PosMap(md, "home", IF f <= NumSlots /\ HasPos(md, "home", f) THEN f ELSE f - 1)

AwayPositions(md) == PosMap(md, "away", FirstMissing(md) - 1)

\* Mutant: only the X coordinate is compared
IsGoalyX(val) == val[1] = 1

\* val == (1, 1)
IsGoalyPos(val) == val = <<1, 1>>

GoalySlots(pos) == {k \in DOMAIN pos : IsGoalyPos(pos[k])}

\* Mutant: the last slot at (1, 1) is taken
LastGoaly(pos) ==
    IF GoalySlots(pos) = {} THEN 0
    ELSE CHOOSE k \in GoalySlots(pos) : \A j \in GoalySlots(pos) : k >= j

\* next(key for key, val in pos.items() if val == (1, 1)): the first such key in
\* insertion order, which is ascending slot order; 0 stands for StopIteration
FirstGoaly(pos) ==
    IF GoalySlots(pos) = {} THEN 0
    ELSE CHOOSE k \in GoalySlots(pos) : \A j \in GoalySlots(pos) : k <= j

\* list.remove(x): the list without its first x
RemoveFirst(s, x) ==
    LET k == CHOOSE i \in 1..Len(s) : s[i] = x /\ \A j \in 1..(i - 1) : s[j] # x
    IN SubSeq(s, 1, k - 1) \o SubSeq(s, k + 1, Len(s))

\* [side + "_player_" + str(i) for i in np.arange(1, 12)] after .remove(goaly name)
FieldNames(side, goaly) ==
    RemoveFirst([i \in Slots |-> Col(side \o "_player_", i)], Col(side \o "_player_", goaly))

\* {"players": [Player(match_data[p]) for p in names], "goaly": Player(match_data[goaly name])}
SidePlayers(md, side, goaly) ==
    LET names == FieldNames(side, goaly)
    IN [players |-> [i \in 1..Len(names) |-> NewPlayer(md[names[i]])],
        goaly |-> NewPlayer(md[Col(side \o "_player_", goaly)])]

\* sum(player.attributes[attribute] for player in players): 0 + v1 + v2 + ...
RECURSIVE SumFrom(_, _, _, _)
SumFrom(acc, players, attribute, i) ==
    IF i > Len(players) THEN acc
    ELSE SumFrom(Add(acc, GetItem(players[i].attributes, attribute)), players, attribute, i + 1)

SumAttribute(players, attribute) == SumFrom(Num(0), players, attribute, 1)

\* Mutant: the two sums are added
AttributeSumOfSides(home, away, attribute) ==
    OrNaN(Add(SumAttribute(home.players, attribute), SumAttribute(away.players, attribute)))

\* calculate_attribute_difference(attribute): home sum minus away sum, NaN when
\* anything in the try block raised
AttributeDifference(home, away, attribute) ==
    OrNaN(Sub(SumAttribute(home.players, attribute), SumAttribute(away.players, attribute)))

\* Mutant: the handler skips the player (except: pass) and keeps the partial sum
RECURSIVE AvgLoopSkip(_, _, _, _)
AvgLoopSkip(att, players, col, i) ==
    IF i > Len(players) THEN att
    ELSE AvgLoopSkip(IF IsExc(Add(att, GetItem(players[i].attributes, col))) THEN att
                     ELSE Add(att, GetItem(players[i].attributes, col)),
                     players, col, i + 1)

\* The avg mode's loop: att = 0; for player: try: att += v except: att = np.nan
RECURSIVE AvgLoop(_, _, _, _)
AvgLoop(att, players, col, i) ==
    IF i > Len(players) THEN att
    ELSE AvgLoop(OrNaN(Add(att, GetItem(players[i].attributes, col))), players, col, i + 1)

\* The goalkeeper difference of the diff and avg_diff modes
GoalyDiff(home, away, col) ==
    OrNaN(Sub(GetItem(home.goaly.attributes, col), GetItem(away.goaly.attributes, col)))

\* Mutant: the key carries enumerate's 0-based index (str(i) for str(i + 1))
AllSideZeroBased(side, tag, cols) ==
    [n \in 1..(Len(side.players) * Len(cols)) |->
        LET i == ((n - 1) \div Len(cols)) + 1
            col == cols[((n - 1) % Len(cols)) + 1]
        IN <<col \o tag \o ToString(i - 1), GetItem(side.players[i].attributes, col)>>]
    \o [n \in 1..Len(cols) |->
        <<cols[n] \o tag \o "gk", GetItem(side.goaly.attributes, cols[n])>>]

\* The assignments atts[key] = value of one side in the all mode, in program
\* order, as a sequence of <<key, value>>; a value that is an exception escapes
\* the method.
AllSide(side, tag, cols) ==
    [n \in 1..(Len(side.players) * Len(cols)) |->
        LET i == ((n - 1) \div Len(cols)) + 1
            col == cols[((n - 1) % Len(cols)) + 1]
        IN <<col \o tag \o ToString(i), GetItem(side.players[i].attributes, col)>>]
    \o [n \in 1..Len(cols) |->
        <<cols[n] \o tag \o "gk", GetItem(side.goaly.attributes, cols[n])>>]

MinLen(a, b) == IF Len(a) < Len(b) THEN Len(a) ELSE Len(b)

\* Mutant: the field-player difference is away minus home
DiffItemsAwayMinusHome(home, away, cols) ==
    [n \in 1..(MinLen(home.players, away.players) * Len(cols)) |->
        LET i == ((n - 1) \div Len(cols)) + 1
            col == cols[((n - 1) % Len(cols)) + 1]
        IN <<col \o "_dif_" \o ToString(i),
             OrNaN(Sub(GetItem(away.players[i].attributes, col),
                       GetItem(home.players[i].attributes, col)))>>]
    \o [n \in 1..Len(cols) |-> <<cols[n] \o "_dif_gk", GoalyDiff(home, away, cols[n])>>]

\* The assignments of the diff mode
DiffItems(home, away, cols) ==
    [n \in 1..(MinLen(home.players, away.players) * Len(cols)) |->
        LET i == ((n - 1) \div Len(cols)) + 1
            col == cols[((n - 1) % Len(cols)) + 1]
        IN <<col \o "_dif_" \o ToString(i),
             OrNaN(Sub(GetItem(home.players[i].attributes, col),
                       GetItem(away.players[i].attributes, col)))>>]
    \o [n \in 1..Len(cols) |-> <<cols[n] \o "_dif_gk", GoalyDiff(home, away, cols[n])>>]

\* The assignments of the avg_diff mode
AvgDiffItems(home, away, cols) ==
    [n \in 1..(2 * Len(cols)) |->
        LET col == cols[((n - 1) \div 2) + 1]
        IN IF n % 2 = 1
           THEN <<col \o "_avg_diff", Div10(AttributeDifference(home, away, col))>>
           ELSE <<col \o "_avg_diff_gk", GoalyDiff(home, away, col)>>]

\* The assignments of one side in the avg mode
AvgSide(side, tag, cols) ==
    [n \in 1..Len(cols) |->
        <<cols[n] \o tag \o "avg", Div10(AvgLoop(Num(0), side.players, cols[n], 1))>>]
    \o [n \in 1..Len(cols) |->
        <<cols[n] \o tag \o "gk", GetItem(side.goaly.attributes, cols[n])>>]

\* The assignments of export_player_attributes(cols, how = mode)
ExportItems(home, away, cols, mode) ==
    IF mode = "all" THEN AllSide(home, "_H_", cols) \o AllSide(away, "_A_", cols)
    ELSE IF mode = "diff" THEN DiffItems(home, away, cols)
    ELSE IF mode = "avg_diff" THEN AvgDiffItems(home, away, cols)
    ELSE IF mode = "avg" THEN AvgSide(home, "_H_", cols) \o AvgSide(away, "_A_", cols)
    ELSE <<>>

RECURSIVE PutAll(_, _, _)
PutAll(d, items, i) ==
    IF i > Len(items) THEN d ELSE PutAll(Put(d, items[i][1], items[i][2]), items, i + 1)

\* The exception the export lets escape: that of the first assignment whose
\* value raised, "none" when none did
ExportRaised(items) ==
    LET bad == {i \in 1..Len(items) : IsExc(items[i][2])}
    IN IF bad = {} THEN "none"
       ELSE items[CHOOSE i \in bad : \A j \in bad : i <= j][2].kind

\* The dict export_player_attributes returns
ExportAtts(home, away, cols, mode) == PutAll(EmptyDict, ExportItems(home, away, cols, mode), 1)

----------------------------------------------------------------------------
(* The MatchPlayers methods as actions *)

\* No value yet: a result slot before the method has returned anything
Unset == [kind |-> "unset", num |-> 0, den |-> 1, items |-> {}]

Hows == {"all", "diff", "avg_diff", "avg"}

\* The cols argument of the exports
Cols == <<"overall_rating">>

\* MatchPlayers.get_data(data): self.match_data = data.to_dict()
get_data ==
    /\ pc = "new"
    /\ match_data' = data
    /\ pc' = "data"
    /\ UNCHANGED <<lookup_vars, second, data, home_player_pos, away_player_pos, home_players,
                   away_players, difference, atts, how, raised>>

\* Mutant: the lookup of a missing position field is swallowed (try/except: pass)
PositionsSwallowed(md) == "none"

\* The exception get_player_positions lets escape: the KeyError of the first
\* missing position field, "none" when no field is missing
PositionsRaised(md) == IF FirstMissing(md) <= NumSlots THEN "KeyError" ELSE "none"

\* MatchPlayers.get_player_positions()
get_player_positions ==
    /\ pc = "data"
    /\ home_player_pos' = HomePositions(match_data)
    /\ away_player_pos' = AwayPositions(match_data)
    /\ raised' = PositionsRaised(match_data)
    /\ pc' = IF PositionsRaised(match_data) = "none" THEN "positions" ELSE "error"
    /\ UNCHANGED <<lookup_vars, second, data, match_data, home_players, away_players,
                   difference, atts, how>>

\* Whether match_data holds the id fields lines 160-169 read, in program order
HasFieldIds(md, side, goaly) ==
    LET names == FieldNames(side, goaly)
    IN \A i \in 1..Len(names) : names[i] \in DOMAIN md

HasGoalyId(md, side, goaly) == Col(side \o "_player_", goaly) \in DOMAIN md

\* What get_player_ids leaves in home_players and away_players, and how it ends,
\* from match_data and the two position maps
IdsResult(md, home_pos, away_pos) ==
    LET gh == FirstGoaly(home_pos)
        ga == FirstGoaly(away_pos)
    IN IF gh = 0 \/ ga = 0
       THEN [home_players |-> EmptyDict, away_players |-> EmptyDict,
             raised |-> "StopIteration", pc |-> "error"]
       ELSE IF /\ HasFieldIds(md, "home", gh) /\ HasGoalyId(md, "home", gh)
               /\ HasFieldIds(md, "away", ga) /\ HasGoalyId(md, "away", ga)
       THEN [home_players |-> SidePlayers(md, "home", gh),
             away_players |-> SidePlayers(md, "away", ga),
             raised |-> "none", pc |-> "ids"]
       ELSE [home_players |->
                 IF ~HasFieldIds(md, "home", gh) THEN EmptyDict
                 ELSE IF ~HasGoalyId(md, "home", gh)
                 THEN [players |-> SidePlayers(md, "home", gh).players]
                 ELSE SidePlayers(md, "home", gh),
             away_players |->
                 IF ~(HasFieldIds(md, "home", gh) /\ HasGoalyId(md, "home", gh)
                      /\ HasFieldIds(md, "away", ga))
                 THEN EmptyDict
                 ELSE [players |-> SidePlayers(md, "away", ga).players],
             raised |-> "KeyError", pc |-> "error"]

\* MatchPlayers.get_player_ids()
get_player_ids ==
    /\ pc = "positions"
    /\ LET r == IdsResult(match_data, home_player_pos, away_player_pos)
       IN /\ home_players' = r.home_players
          /\ away_players' = r.away_players
          /\ raised' = r.raised
          /\ pc' = r.pc
    /\ UNCHANGED <<lookup_vars, second, data, match_data, home_player_pos, away_player_pos,
                   difference, atts, how>>

\* The Player objects of the match, home field players first, then the home
\* goalkeeper, then the away side: the order in which the snapshots are fetched
AllPlayers(home, away) ==
    home.players \o <<home.goaly>> \o away.players \o <<away.goaly>>

Fetched(p) == p.attributes # NoAttributes

AllFetched ==
    LET all == AllPlayers(home_players, away_players)
    IN \A k \in 1..Len(all) : Fetched(all[k])

\* The first Player whose snapshot has not been fetched yet
NextPlayer ==
    LET all == AllPlayers(home_players, away_players)
    IN CHOOSE k \in 1..Len(all) :
          ~Fetched(all[k]) /\ \A j \in 1..(k - 1) : Fetched(all[j])

\* side with the attributes of its k-th Player (field players, then goaly) set
WithAttributes(side, k, attrs) ==
    IF k <= Len(side.players)
    THEN [side EXCEPT !.players[k].attributes = attrs]
    ELSE [side EXCEPT !.goaly.attributes = attrs]

\* p.get_player_attributes(player_data, date) on the next Player of the match
get_player_attributes ==
    /\ pc = "ids"
    /\ ~AllFetched
    /\ LET k == NextPlayer
           p == AllPlayers(home_players, away_players)[k]
           attrs == PlayerAttributes(player_data, date, p.player_id, "player_api_id")
           nh == Len(home_players.players) + 1
       IN IF k <= nh
          THEN /\ home_players' = WithAttributes(home_players, k, attrs)
               /\ UNCHANGED away_players
          ELSE /\ away_players' = WithAttributes(away_players, k - nh, attrs)
               /\ UNCHANGED home_players
    /\ UNCHANGED <<lookup_vars, second, data, match_data, home_player_pos, away_player_pos,
                   difference, atts, how, raised, pc>>

\* MatchPlayers.calculate_attribute_difference(attribute)
calculate_attribute_difference ==
    /\ pc = "ids"
    /\ AllFetched
    /\ \E n \in 1..Len(Cols) :
          difference' = AttributeDifference(home_players, away_players, Cols[n])
    /\ UNCHANGED <<lookup_vars, second, data, match_data, home_player_pos, away_player_pos,
                   home_players, away_players, atts, how, raised, pc>>

\* MatchPlayers.export_player_attributes(cols, how)
export_player_attributes ==
    /\ pc = "ids"
    /\ AllFetched
    /\ \E mode \in Hows :
          LET items == ExportItems(home_players, away_players, Cols, mode)
          IN IF ExportRaised(items) = "none"
             THEN /\ atts' = ExportAtts(home_players, away_players, Cols, mode)
                  /\ how' = mode
                  /\ UNCHANGED <<raised, pc>>
             ELSE /\ raised' = ExportRaised(items)
                  /\ pc' = "error"
                  /\ UNCHANGED <<atts, how>>
    /\ UNCHANGED <<lookup_vars, second, data, match_data, home_player_pos, away_player_pos,
                   home_players, away_players, difference>>

----------------------------------------------------------------------------
(* The same methods on the second MatchPlayers object. Each reads and writes  *)
(* the fields of its own object (self) and reads the shared player table.     *)

\* MatchPlayers() for the match row, before get_data
NewObject(row) ==
    [data |-> row, match_data |-> EmptyDict, home_player_pos |-> <<>>,
     away_player_pos |-> <<>>, home_players |-> EmptyDict, away_players |-> EmptyDict,
     atts |-> EmptyDict, how |-> "none", raised |-> "none", pc |-> "new"]

\* No second object
NoObject == [pc |-> "absent"]

\* second.get_data(row)
Second_get_data ==
    /\ second.pc = "new"
    /\ second' = [second EXCEPT !.match_data = second.data, !.pc = "data"]
    /\ UNCHANGED <<lookup_vars, match_vars>>

\* second.get_player_positions()
Second_get_player_positions ==
    /\ second.pc = "data"
    /\ second' = [second EXCEPT
                     !.home_player_pos = HomePositions(second.match_data),
                     !.away_player_pos = AwayPositions(second.match_data),
                     !.raised = PositionsRaised(second.match_data),
                     !.pc = IF PositionsRaised(second.match_data) = "none"
                            THEN "positions" ELSE "error"]
    /\ UNCHANGED <<lookup_vars, match_vars>>

\* Mutant: home_players and away_players are attributes of the class, shared by
\* every MatchPlayers object
Second_get_player_ids_Shared ==
    /\ second.pc = "positions"
    /\ LET r == IdsResult(second.match_data, second.home_player_pos, second.away_player_pos)
       IN /\ second' = [second EXCEPT !.home_players = r.home_players,
                                      !.away_players = r.away_players,
                                      !.raised = r.raised,
                                      !.pc = r.pc]
          /\ home_players' = r.home_players
          /\ away_players' = r.away_players
    /\ UNCHANGED <<lookup_vars, data, match_data, home_player_pos, away_player_pos,
                   difference, atts, how, raised, pc>>

\* second.get_player_ids()
Second_get_player_ids ==
    /\ second.pc = "positions"
    /\ LET r == IdsResult(second.match_data, second.home_player_pos, second.away_player_pos)
       IN second' = [second EXCEPT !.home_players = r.home_players,
                                   !.away_players = r.away_players,
                                   !.raised = r.raised,
                                   !.pc = r.pc]
    /\ UNCHANGED <<lookup_vars, match_vars>>

SecondAllFetched ==
    LET all == AllPlayers(second.home_players, second.away_players)
    IN \A k \in 1..Len(all) : Fetched(all[k])

SecondNextPlayer ==
    LET all == AllPlayers(second.home_players, second.away_players)
    IN CHOOSE k \in 1..Len(all) :
          ~Fetched(all[k]) /\ \A j \in 1..(k - 1) : Fetched(all[j])

\* p.get_player_attributes(player_data, date) on the next Player of the second
\* object
Second_get_player_attributes ==
    /\ second.pc = "ids"
    /\ ~SecondAllFetched
    /\ LET k == SecondNextPlayer
           p == AllPlayers(second.home_players, second.away_players)[k]
           attrs == PlayerAttributes(player_data, date, p.player_id, "player_api_id")
           nh == Len(second.home_players.players) + 1
       IN IF k <= nh
          THEN second' = [second EXCEPT
                             !.home_players = WithAttributes(@, k, attrs)]
          ELSE second' = [second EXCEPT
                             !.away_players = WithAttributes(@, k - nh, attrs)]
    /\ UNCHANGED <<lookup_vars, match_vars>>

\* second.export_player_attributes(cols, how)
Second_export_player_attributes ==
    /\ second.pc = "ids"
    /\ SecondAllFetched
    /\ \E mode \in Hows :
          LET items == ExportItems(second.home_players, second.away_players, Cols, mode)
          IN IF ExportRaised(items) = "none"
             THEN second' = [second EXCEPT
                                !.atts = ExportAtts(second.home_players,
                                                    second.away_players, Cols, mode),
                                !.how = mode]
             ELSE second' = [second EXCEPT !.raised = ExportRaised(items),
                                           !.pc = "error"]
    /\ UNCHANGED <<lookup_vars, match_vars>>

----------------------------------------------------------------------------
(* Inputs *)

MaxRows == 3

MaxGoalies == 2

IDs == {1, 2}

Dates == {1, 2, 3}

Cutoffs == {2, 3}

Ratings == {Num(70), Num(75)}

TeamCols == {"buildUpPlaySpeed"}

RawRows == IDs \X Dates \X Ratings

RawTables == UNION {[1..n -> RawRows] : n \in 0..MaxRows}

\* A table of <<id, date, value>> rows read into a DataFrame: RangeIndex labels 0..n-1
MkFrame(raw, id_name, val_name) ==
    [columns |-> {id_name, "date", val_name},
     rows |-> [i \in 1..Len(raw) |->
                 [index |-> i - 1,
                  row |-> [c \in {id_name, "date", val_name} |->
                             IF c = id_name THEN Num(raw[i][1])
                             ELSE IF c = "date" THEN Num(raw[i][2])
                             ELSE raw[i][3]]]]]

\* The player ids of the match row
HomeId(i) == 100 + i

AwayId(i) == 200 + i

\* Coordinates of the slots that are not goalkeepers: never (1, 1), though X is 1
\* for some slots and Y is 1 for others
FieldPos(i) == <<(i % 3) + 1, (i % 4) + 1>>

\* A match row whose home slots gh and away slots ga are at (1, 1)
MatchRow(gh, ga) ==
    LET pairs ==
            {<<Col("home_player_X", i), IF i \in gh THEN 1 ELSE FieldPos(i)[1]>> : i \in Slots}
            \cup {<<Col("home_player_Y", i), IF i \in gh THEN 1 ELSE FieldPos(i)[2]>> : i \in Slots}
            \cup {<<Col("away_player_X", i), IF i \in ga THEN 1 ELSE FieldPos(i)[1]>> : i \in Slots}
            \cup {<<Col("away_player_Y", i), IF i \in ga THEN 1 ELSE FieldPos(i)[2]>> : i \in Slots}
            \cup {<<Col("home_player_", i), HomeId(i)>> : i \in Slots}
            \cup {<<Col("away_player_", i), AwayId(i)>> : i \in Slots}
    IN [k \in {p[1] : p \in pairs} |-> (CHOOSE p \in pairs : p[1] = k)[2]]

MatchIds == [k \in 1..(2 * NumSlots) |-> IF k <= NumSlots THEN HomeId(k) ELSE AwayId(k - NumSlots)]

\* The rating a player's latest entry before the match carries
Rating(p) == IF p > 200 THEN 30 + 3 * (p - 200) ELSE 60 + (p - 100)

MatchDate == 2

\* The histories a player can have in the attribute table
Histories == {"absent", "late", "nan", "dup", "two"}

History(p, h) ==
    IF h = "absent" THEN <<>>
    ELSE IF h = "late" THEN << <<p, MatchDate, Num(Rating(p))>> >>
    ELSE IF h = "nan" THEN << <<p, MatchDate - 1, NaN>> >>
    ELSE IF h = "dup" THEN << <<p, MatchDate - 1, Num(Rating(p))>>,
                              <<p, MatchDate - 1, Num(Rating(p) + 1)>> >>
    ELSE IF h = "two" THEN << <<p, MatchDate - 2, Num(Rating(p) - 5)>>,
                              <<p, MatchDate - 1, Num(Rating(p))>> >>
    ELSE << <<p, MatchDate - 1, Num(Rating(p))>> >>

\* The attribute table in which player odd has history h and every other player
\* of the match one entry before the match date (odd = 0: every player)
RECURSIVE MatchTable(_, _, _)
MatchTable(k, odd, h) ==
    IF k > Len(MatchIds) THEN <<>>
    ELSE History(MatchIds[k], IF MatchIds[k] = odd THEN h ELSE "one") \o MatchTable(k + 1, odd, h)

IdleLookup ==
    /\ team_data = NoneFrame
    /\ player = NewPlayer(0)
    /\ team = NewTeam(0)
    /\ latest_entry = NoneFrame
    /\ lpc = [player |-> "idle", team |-> "idle", player_calls |-> 0, team_calls |-> 0]

NewMatchPlayers ==
    /\ match_data = EmptyDict
    /\ home_player_pos = <<>>
    /\ away_player_pos = <<>>
    /\ home_players = EmptyDict
    /\ away_players = EmptyDict
    /\ difference = Unset
    /\ atts = EmptyDict
    /\ how = "none"
    /\ raised = "none"
    /\ pc = "new"

----------------------------------------------------------------------------
(* Spec: one match record through the whole extraction. Every placement of    *)
(* the two goalkeepers with every player having one entry before the match,   *)
(* and every history of any one player with the goalkeepers in the first,     *)
(* a middle or the last slot.                                                 *)

\* The goalkeeper slots tried together with an odd history: first, middle, last
OddGoalySlots == {1, 6, NumSlots}

Init ==
    /\ \E gh \in Slots, ga \in Slots :
       \E odd \in {0} \cup {MatchIds[k] : k \in 1..Len(MatchIds)}, h \in Histories :
          /\ odd = 0 => h = "absent"
          /\ odd # 0 => {gh, ga} \subseteq OddGoalySlots
          /\ data = MatchRow({gh}, {ga})
          /\ player_data = MkFrame(MatchTable(1, odd, h), "player_api_id", "overall_rating")
    /\ date = MatchDate
    /\ IdleLookup
    /\ NewMatchPlayers
    /\ second = NoObject

Next ==
    \/ get_data
    \/ get_player_positions
    \/ get_player_ids
    \/ get_player_attributes
    \/ calculate_attribute_difference
    \/ export_player_attributes

Spec == Init /\ [][Next]_vars

----------------------------------------------------------------------------
(* SpecIds: position maps with zero, one or several goalkeeper slots a side   *)

GoalySets == {g \in SUBSET Slots : Cardinality(g) <= MaxGoalies}

InitIds ==
    /\ \E gh \in GoalySets, ga \in GoalySets : data = MatchRow(gh, ga)
    /\ player_data = MkFrame(MatchTable(1, 0, "one"), "player_api_id", "overall_rating")
    /\ date = MatchDate
    /\ IdleLookup
    /\ NewMatchPlayers
    /\ second = NoObject

NextIds ==
    \/ get_data
    \/ get_player_positions
    \/ get_player_ids

SpecIds == InitIds /\ [][NextIds]_vars

----------------------------------------------------------------------------
(* SpecSchema: match rows that lack up to MaxMissing of the 44 position       *)
(* fields, through the whole extraction                                        *)

MaxMissing == 1

\* The 44 position fields of a match row
PositionFields ==
    {Col(side \o axis, i) : side \in {"home", "away"}, axis \in {"_player_X", "_player_Y"},
                            i \in Slots}

\* The row without the fields in gone
Without(row, gone) == [k \in DOMAIN row \ gone |-> row[k]]

\* The sets of at most k position fields
RECURSIVE FieldSets(_)
FieldSets(k) ==
    IF k = 0 THEN {{}}
    ELSE FieldSets(k - 1) \cup {g \cup {f} : g \in FieldSets(k - 1), f \in PositionFields}

InitSchema ==
    /\ \E gh \in OddGoalySlots, ga \in OddGoalySlots :
       \E gone \in FieldSets(MaxMissing) :
          data = Without(MatchRow({gh}, {ga}), gone)
    /\ player_data = MkFrame(MatchTable(1, 0, "one"), "player_api_id", "overall_rating")
    /\ date = MatchDate
    /\ IdleLookup
    /\ NewMatchPlayers
    /\ second = NoObject

SpecSchema == InitSchema /\ [][Next]_vars

----------------------------------------------------------------------------
(* SpecTwo: two match records on two MatchPlayers objects, their extraction   *)
(* steps interleaved in every order, over one shared player table             *)

\* The goalkeeper slots of the two records
TwoGoalySlots == {1, NumSlots}

InitTwo ==
    /\ \E gh \in TwoGoalySlots, ga \in TwoGoalySlots :
          data = MatchRow({gh}, {ga})
    /\ \E gh \in TwoGoalySlots, ga \in TwoGoalySlots :
          second = NewObject(MatchRow({gh}, {ga}))
    /\ \E h \in {"one", "nan"} :
          player_data = MkFrame(MatchTable(1, HomeId(2), h), "player_api_id", "overall_rating")
    /\ date = MatchDate
    /\ IdleLookup
    /\ NewMatchPlayers

NextTwo ==
    \/ get_data
    \/ get_player_positions
    \/ get_player_ids
    \/ get_player_attributes
    \/ export_player_attributes
    \/ Second_get_data
    \/ Second_get_player_positions
    \/ Second_get_player_ids
    \/ Second_get_player_attributes
    \/ Second_export_player_attributes

SpecTwo == InitTwo /\ [][NextTwo]_vars

----------------------------------------------------------------------------
(* SpecLookup: the snapshot lookups on every small attribute table            *)

\* How many times each lookup is called on the same object
MaxCalls == 2

InitLookup ==
    /\ \E raw \in RawTables, id \in IDs, d \in Cutoffs :
        /\ player_data = MkFrame(raw, "player_api_id", "overall_rating")
        /\ team_data = MkFrame(raw, "team_api_id", "buildUpPlaySpeed")
        /\ date = d
        /\ player = NewPlayer(id)
        /\ team = NewTeam(id)
    /\ latest_entry = NoneFrame
    /\ lpc = [player |-> "new", team |-> "new", player_calls |-> 0, team_calls |-> 0]
    /\ data = EmptyDict
    /\ NewMatchPlayers
    /\ second = NoObject

\* Mutant: the lookup drops the rows it returns from the table (in place)
Player_get_player_attributes_Dropping ==
    /\ lpc.player_calls < MaxCalls
    /\ player' = [player EXCEPT !.attributes =
                     PlayerAttributes(player_data, date, player.player_id, "player_api_id")]
    /\ LET latest == LatestRows(EntriesBeforeDate(
                         EntriesOfId(player_data, "player_api_id", player.player_id), date))
       IN player_data' =
             [player_data EXCEPT !.rows =
                 SelectSeq(@, LAMBDA r : \A i \in 1..Len(latest.rows) : latest.rows[i] # r)]
    /\ lpc' = [lpc EXCEPT !.player = "looked_up", !.player_calls = @ + 1]
    /\ UNCHANGED <<team_data, date, team, latest_entry, match_vars, second>>

\* player.get_player_attributes(player_data, date), called up to MaxCalls times
\* on the same Player
Player_get_player_attributes ==
    /\ lpc.player_calls < MaxCalls
    /\ player' = [player EXCEPT !.attributes =
                     PlayerAttributes(player_data, date, player.player_id, "player_api_id")]
    /\ lpc' = [lpc EXCEPT !.player = "looked_up", !.player_calls = @ + 1]
    /\ UNCHANGED <<player_data, team_data, date, team, latest_entry, match_vars, second>>

\* team.get_data(team_data)
Team_get_data ==
    /\ team' = [team EXCEPT !.attribute_entries =
                   EntriesOfId(team_data, "team_api_id", team.id_code)]
    /\ lpc' = [lpc EXCEPT !.team = IF @ = "new" THEN "data" ELSE @]
    /\ UNCHANGED <<player_data, team_data, date, player, latest_entry, match_vars, second>>

\* team.get_latest_entry(date, cols); called once get_data has stored the
\* entries, up to MaxCalls times on the same Team
Team_get_latest_entry ==
    /\ lpc.team # "new"
    /\ lpc.team_calls < MaxCalls
    /\ latest_entry' = TeamLatestEntry(team.attribute_entries, team.id_code, date,
                                       TeamCols, "team_api_id")
    /\ lpc' = [lpc EXCEPT !.team = "looked_up", !.team_calls = @ + 1]
    /\ UNCHANGED <<player_data, team_data, date, player, team, match_vars, second>>

NextLookup ==
    \/ Player_get_player_attributes
    \/ Team_get_data
    \/ Team_get_latest_entry

SpecLookup == InitLookup /\ [][NextLookup]_vars

----------------------------------------------------------------------------
(* Claims about the snapshot lookups, under SpecLookup *)

\* The rows of df that belong to id and are dated strictly before the cutoff
RowsBefore(df, id_name, id) ==
    {i \in 1..Len(df.rows) :
        /\ df.rows[i].row[id_name] = Num(id)
        /\ df.rows[i].row["date"].num < date}

\* Row i is an entry of id with the maximum date among those before the cutoff
IsLatestBefore(df, id_name, id, i) ==
    /\ i \in RowsBefore(df, id_name, id)
    /\ \A j \in RowsBefore(df, id_name, id) :
          df.rows[j].row["date"].num <= df.rows[i].row["date"].num

PlayerLookedUp == lpc.player = "looked_up"

TeamLookedUp == lpc.team = "looked_up"

\* C1: whenever some entry of the id is dated before the cutoff, the lookup
\* returns the attribute mapping of the entry of that id with the maximum date
\* among the entries dated strictly before the cutoff: Player.attributes is that
\* entry's {column: value}, Team.get_latest_entry's frame is that one entry.
C1_SnapshotIsLatestEntry ==
    /\ (PlayerLookedUp /\ RowsBefore(player_data, "player_api_id", player.player_id) # {})
          => \E i \in 1..Len(player_data.rows) :
                /\ IsLatestBefore(player_data, "player_api_id", player.player_id, i)
                /\ player.attributes = player_data.rows[i].row
    /\ (TeamLookedUp /\ RowsBefore(team_data, "team_api_id", team.id_code) # {})
          => \E i \in 1..Len(team_data.rows) :
                /\ IsLatestBefore(team_data, "team_api_id", team.id_code, i)
                /\ latest_entry =
                      [columns |-> TeamCols,
                       rows |-> << [index |-> team.id_code,
                                    row |-> [c \in TeamCols |-> team_data.rows[i].row[c]]] >>]

\* C2: no value of a lookup's result comes from an entry dated on or after the
\* cutoff: every value Player.attributes holds, and every row of the frame
\* Team.get_latest_entry returns, is that of an entry of the id dated strictly
\* before the cutoff (or, for the team, the all-NaN row of no entry at all).
C2_NothingFromCutoffOrLater ==
    /\ PlayerLookedUp =>
          \A c \in DOMAIN player.attributes :
             LET v == player.attributes[c]
                 before == RowsBefore(player_data, "player_api_id", player.player_id)
             IN IF v.kind = "dict"
                THEN \A it \in v.items :
                        \E i \in before : /\ player_data.rows[i].index = it[1]
                                          /\ player_data.rows[i].row[c] = it[2]
                ELSE \E i \in before : player.attributes = player_data.rows[i].row
    /\ TeamLookedUp =>
          \A k \in 1..Len(latest_entry.rows) :
             \/ \A c \in TeamCols : latest_entry.rows[k].row[c] = NaN
             \/ \E i \in RowsBefore(team_data, "team_api_id", team.id_code) :
                   \A c \in TeamCols : latest_entry.rows[k].row[c] = team_data.rows[i].row[c]

\* Both lookups have run on a table that holds an entry of the id dated exactly
\* at the cutoff, the only entry there is with that value, and an earlier entry
C2_Witness ==
    /\ PlayerLookedUp
    /\ TeamLookedUp
    /\ RowsBefore(player_data, "player_api_id", player.player_id) # {}
    /\ \E i \in 1..Len(player_data.rows) :
          /\ player_data.rows[i].row["player_api_id"] = Num(player.player_id)
          /\ player_data.rows[i].row["date"] = Num(date)
          /\ \A j \in RowsBefore(player_data, "player_api_id", player.player_id) :
                player_data.rows[j].row["overall_rating"] # player_data.rows[i].row["overall_rating"]

\* C3: when no entry of the id is dated before the cutoff, the lookup raises
\* nothing and every attribute of the snapshot it returns is undefined (NaN) or
\* absent.
C3_NoEntryGivesUndefined ==
    /\ (PlayerLookedUp /\ RowsBefore(player_data, "player_api_id", player.player_id) = {})
          => \A c \in DOMAIN player.attributes : player.attributes[c] = NaN
    /\ (TeamLookedUp /\ RowsBefore(team_data, "team_api_id", team.id_code) = {})
          => \A k \in 1..Len(latest_entry.rows) :
                \A c \in TeamCols : latest_entry.rows[k].row[c] = NaN

----------------------------------------------------------------------------
(* Claims about get_player_ids, under SpecIds *)

\* The slots of a side whose position fields in the match row are (1, 1)
SlotsAtOneOne(side) ==
    {s \in Slots : data[Col(side \o "_player_X", s)] = 1 /\ data[Col(side \o "_player_Y", s)] = 1}

ExactlyOneGoaly(side) == Cardinality(SlotsAtOneOne(side)) = 1

\* The field-player list the claim describes: the ids of the slots other than
\* goaly, in ascending slot order
IsFieldListOf(players, side, goaly) ==
    /\ Len(players) = NumSlots - 1
    /\ \A k \in 1..(NumSlots - 1) :
          players[k].player_id = data[Col(side \o "_player_", IF k < goaly THEN k ELSE k + 1)]

\* C4: when a side's position map has no slot at (1, 1), or more than one,
\* goalkeeper identification fails instead of producing a goalkeeper and a
\* field-player list: get_player_ids completes only with exactly one such slot
\* a side.
C4_GoalkeeperCountEnforced ==
    pc = "ids" => ExactlyOneGoaly("home") /\ ExactlyOneGoaly("away")

\* C5: with exactly one slot at (1, 1) on each side, get_player_ids makes the
\* player id of that slot the side's goalkeeper and the ids of the ten other
\* slots, in ascending slot order, its field players.
C5_GoalkeeperAndFieldPlayers ==
    (pc = "ids" /\ ExactlyOneGoaly("home") /\ ExactlyOneGoaly("away"))
       => \A gh \in SlotsAtOneOne("home"), ga \in SlotsAtOneOne("away") :
             /\ home_players.goaly.player_id = data[Col("home_player_", gh)]
             /\ away_players.goaly.player_id = data[Col("away_player_", ga)]
             /\ IsFieldListOf(home_players.players, "home", gh)
             /\ IsFieldListOf(away_players.players, "away", ga)

\* get_player_ids has run with the home goalkeeper alone at slot 5 and the away
\* goalkeeper alone at slot 1
C5_Witness ==
    /\ pc = "ids"
    /\ SlotsAtOneOne("home") = {5}
    /\ SlotsAtOneOne("away") = {1}
    /\ home_players.goaly.player_id = HomeId(5)
    /\ Len(home_players.players) = NumSlots - 1

----------------------------------------------------------------------------
(* Claims about the aggregates and the exports, under Spec *)

Attr == Cols[1]

\* The slot of a side's k-th field player when its goalkeeper sits in slot goaly
SlotOf(k, goaly) == IF k < goaly THEN k ELSE k + 1

\* The goalkeeper slots of the match row (one a side under Spec)
HomeGoaly == CHOOSE s \in Slots : SlotsAtOneOne("home") = {s}

AwayGoaly == CHOOSE s \in Slots : SlotsAtOneOne("away") = {s}

\* The snapshot value of the player the match row names in a slot, looked up
\* in the attribute table
SlotValue(side, s, col) ==
    GetItem(PlayerAttributes(player_data, date, data[Col(side \o "_player_", s)],
                             "player_api_id"), col)

\* The value of a side's k-th field player, and of its goalkeeper
FieldValue(side, goaly, k, col) == SlotValue(side, SlotOf(k, goaly), col)

FieldIndex == 1..(NumSlots - 1)

\* A player has a defined value: one number
Defined(v) == v.kind = "num"

AllDefined(side, goaly, col) == \A k \in FieldIndex : Defined(FieldValue(side, goaly, k, col))

RECURSIVE SumNums(_, _, _, _)
SumNums(side, goaly, col, k) ==
    IF k = 0 THEN 0 ELSE FieldValue(side, goaly, k, col).num + SumNums(side, goaly, col, k - 1)

\* The sum of the per-slot differences the diff mode exports for col
RECURSIVE DiffModeSum(_, _)
DiffModeSum(col, k) ==
    IF k = 0 THEN Num(0)
    ELSE Add(DiffModeSum(col, k - 1),
             ExportAtts(home_players, away_players, Cols, "diff")[col \o "_dif_" \o ToString(k)])

\* C6: when all ten field players of both sides have a defined value of the
\* attribute, the avg_diff export is (home sum - away sum) / 10, and that is
\* the mean of the ten per-slot differences of the diff export.
C6_AvgDiffIsMeanOfDiffs ==
    (how = "avg_diff" /\ AllDefined("home", HomeGoaly, Attr) /\ AllDefined("away", AwayGoaly, Attr))
       => /\ atts[Attr \o "_avg_diff"] =
                [kind |-> "num",
                 num |-> SumNums("home", HomeGoaly, Attr, NumSlots - 1)
                         - SumNums("away", AwayGoaly, Attr, NumSlots - 1),
                 den |-> 10, items |-> {}]
          /\ EqVal(atts[Attr \o "_avg_diff"], Div10(DiffModeSum(Attr, NumSlots - 1)))

\* The avg_diff export of a match whose goalkeepers sit in different slots and
\* whose field players all have a value, one of them from the later of two entries
C6_Witness ==
    /\ how = "avg_diff"
    /\ AllDefined("home", HomeGoaly, Attr) /\ AllDefined("away", AwayGoaly, Attr)
    /\ HomeGoaly = 1 /\ AwayGoaly = 6
    /\ Len(player_data.rows) = 2 * NumSlots + 1
    /\ atts[Attr \o "_avg_diff"].num # 0

\* A field player of the side has no value for the column
SomeMissing(side, goaly, col) == \E k \in FieldIndex : ~Defined(FieldValue(side, goaly, k, col))

\* C7: if any one field player of a side has no value for a column, whatever
\* its place in the field-player list, calculate_attribute_difference and the
\* avg_diff export give NaN, and the avg export gives NaN for that side, never a
\* partial sum or average.
C7_MissingPropagates ==
    LET missH == SomeMissing("home", HomeGoaly, Attr)
        missA == SomeMissing("away", AwayGoaly, Attr)
    IN /\ (difference # Unset /\ (missH \/ missA)) => difference = NaN
       /\ (how = "avg_diff" /\ (missH \/ missA)) => atts[Attr \o "_avg_diff"] = NaN
       /\ (how = "avg" /\ missH) => atts[Attr \o "_H_avg"] = NaN
       /\ (how = "avg" /\ missA) => atts[Attr \o "_A_avg"] = NaN

\* The avg export and calculate_attribute_difference have run on a match whose
\* first home field player has no entry before the match date
C7_Witness ==
    /\ how = "avg"
    /\ difference # Unset
    /\ HomeGoaly = 6
    /\ RowsBefore(player_data, "player_api_id", HomeId(1)) = {}
    /\ \A k \in 2..(NumSlots - 1) : Defined(FieldValue("home", HomeGoaly, k, Attr))

\* The player has no entry before the cutoff: its snapshot is missing
SnapshotMissing(side, s) ==
    RowsBefore(player_data, "player_api_id", data[Col(side \o "_player_", s)]) = {}

\* C8: in every export mode, a missing snapshot of a field player or of a
\* goalkeeper raises nothing and leaves the features it affects undefined (NaN).
C8_MissingSnapshotUndefinedFeatures ==
    /\ raised = "none"
    /\ how = "all" =>
          /\ \A k \in FieldIndex :
                /\ SnapshotMissing("home", SlotOf(k, HomeGoaly))
                      => atts[Attr \o "_H_" \o ToString(k)] = NaN
                /\ SnapshotMissing("away", SlotOf(k, AwayGoaly))
                      => atts[Attr \o "_A_" \o ToString(k)] = NaN
          /\ SnapshotMissing("home", HomeGoaly) => atts[Attr \o "_H_gk"] = NaN
          /\ SnapshotMissing("away", AwayGoaly) => atts[Attr \o "_A_gk"] = NaN
    /\ how = "diff" =>
          /\ \A k \in FieldIndex :
                (SnapshotMissing("home", SlotOf(k, HomeGoaly))
                 \/ SnapshotMissing("away", SlotOf(k, AwayGoaly)))
                   => atts[Attr \o "_dif_" \o ToString(k)] = NaN
          /\ (SnapshotMissing("home", HomeGoaly) \/ SnapshotMissing("away", AwayGoaly))
                => atts[Attr \o "_dif_gk"] = NaN
    /\ how = "avg_diff" =>
          /\ (\E k \in FieldIndex : SnapshotMissing("home", SlotOf(k, HomeGoaly))
                                    \/ SnapshotMissing("away", SlotOf(k, AwayGoaly)))
                => atts[Attr \o "_avg_diff"] = NaN
          /\ (SnapshotMissing("home", HomeGoaly) \/ SnapshotMissing("away", AwayGoaly))
                => atts[Attr \o "_avg_diff_gk"] = NaN
    /\ how = "avg" =>
          /\ (\E k \in FieldIndex : SnapshotMissing("home", SlotOf(k, HomeGoaly)))
                => atts[Attr \o "_H_avg"] = NaN
          /\ (\E k \in FieldIndex : SnapshotMissing("away", SlotOf(k, AwayGoaly)))
                => atts[Attr \o "_A_avg"] = NaN
          /\ SnapshotMissing("home", HomeGoaly) => atts[Attr \o "_H_gk"] = NaN
          /\ SnapshotMissing("away", AwayGoaly) => atts[Attr \o "_A_gk"] = NaN

\* The slots that hold a field player on both sides
SharedFieldSlots == Slots \ {HomeGoaly, AwayGoaly}

\* C9, as stated: in diff mode every field-player feature is the home value
\* minus the away value of the two players of one and the same slot, wherever
\* the two goalkeepers sit, and the goalkeeper difference is exported apart.
C9_DiffPairsSameSlot ==
    how = "diff" =>
       /\ \A k \in FieldIndex :
             \E s \in SharedFieldSlots :
                atts[Attr \o "_dif_" \o ToString(k)] =
                   OrNaN(Sub(SlotValue("home", s, Attr), SlotValue("away", s, Attr)))
       /\ atts[Attr \o "_dif_gk"] =
             OrNaN(Sub(SlotValue("home", HomeGoaly, Attr), SlotValue("away", AwayGoaly, Attr)))

\* C9, amended: in diff mode feature k is the value of the home side's k-th
\* field player minus that of the away side's k-th field player, NaN when either
\* is not a number, a side's k-th field player being the k-th slot in ascending
\* order once its own goalkeeper slot is left out; the goalkeeper difference is
\* exported apart, and nothing else is exported.
C9_DiffPairsByListIndex ==
    how = "diff" =>
       /\ DOMAIN atts = {Attr \o "_dif_" \o ToString(k) : k \in FieldIndex} \cup {Attr \o "_dif_gk"}
       /\ \A k \in FieldIndex :
             atts[Attr \o "_dif_" \o ToString(k)] =
                OrNaN(Sub(FieldValue("home", HomeGoaly, k, Attr),
                          FieldValue("away", AwayGoaly, k, Attr)))
       /\ atts[Attr \o "_dif_gk"] =
             OrNaN(Sub(SlotValue("home", HomeGoaly, Attr), SlotValue("away", AwayGoaly, Attr)))

\* The diff export of a match whose home goalkeeper sits in slot 1 and whose
\* away goalkeeper sits in slot 3
C9_Witness ==
    /\ how = "diff"
    /\ HomeGoaly = 1 /\ AwayGoaly = 3
    /\ Defined(atts[Attr \o "_dif_1"])

\* C10, as stated: in all mode the number in a field player's feature key is
\* the player's slot number in the match record, wherever the goalkeeper sits,
\* and each goalkeeper's value is under the gk key.
C10_AllKeyedBySlot ==
    how = "all" =>
       /\ \A s \in Slots \ {HomeGoaly} :
             /\ (Attr \o "_H_" \o ToString(s)) \in DOMAIN atts
             /\ atts[Attr \o "_H_" \o ToString(s)] = SlotValue("home", s, Attr)
       /\ \A s \in Slots \ {AwayGoaly} :
             /\ (Attr \o "_A_" \o ToString(s)) \in DOMAIN atts
             /\ atts[Attr \o "_A_" \o ToString(s)] = SlotValue("away", s, Attr)
       /\ atts[Attr \o "_H_gk"] = SlotValue("home", HomeGoaly, Attr)
       /\ atts[Attr \o "_A_gk"] = SlotValue("away", AwayGoaly, Attr)

\* C10, amended: in all mode the output holds, for every player and column,
\* what the player's snapshot holds for the column; the number in a field
\* player's key is its 1-based place in the side's field-player list (the slot
\* number below the goalkeeper's slot, the slot number minus one above it), so
\* the keys run from 1 to 10; each goalkeeper's value is under the gk key.
C10_AllKeyedByListIndex ==
    how = "all" =>
       /\ DOMAIN atts = {Attr \o "_H_" \o ToString(k) : k \in FieldIndex}
                        \cup {Attr \o "_A_" \o ToString(k) : k \in FieldIndex}
                        \cup {Attr \o "_H_gk", Attr \o "_A_gk"}
       /\ \A k \in FieldIndex :
             /\ atts[Attr \o "_H_" \o ToString(k)] = FieldValue("home", HomeGoaly, k, Attr)
             /\ atts[Attr \o "_A_" \o ToString(k)] = FieldValue("away", AwayGoaly, k, Attr)
       /\ atts[Attr \o "_H_gk"] = SlotValue("home", HomeGoaly, Attr)
       /\ atts[Attr \o "_A_gk"] = SlotValue("away", AwayGoaly, Attr)

\* The all export of a match whose home goalkeeper sits in slot 6 and whose
\* away goalkeeper sits in slot 1
C10_Witness ==
    /\ how = "all"
    /\ HomeGoaly = 6 /\ AwayGoaly = 1
    /\ atts[Attr \o "_H_6"] = Num(Rating(HomeId(7)))

----------------------------------------------------------------------------
(* Claims about get_player_positions, under SpecSchema and SpecIds *)

\* The position fields the match row lacks
MissingFields == PositionFields \ DOMAIN data

\* C11: whenever one of the 44 position fields is absent from the match row,
\* get_player_positions fails (the KeyError of the missing field escapes it)
\* and the extraction of the record ends there: no later step runs and no
\* feature is produced.
C11_MissingFieldAborts ==
    MissingFields # {} =>
       /\ pc \in {"new", "data", "error"}
       /\ pc = "error" => raised = "KeyError"
       /\ pc # "error" => raised = "none"
       /\ home_players = EmptyDict /\ away_players = EmptyDict
       /\ atts = EmptyDict /\ how = "none" /\ difference = Unset

\* get_player_positions has failed on a row that lacks away_player_Y7, after
\* filling the home slots 1..7 and the away slots 1..6
C11_Witness ==
    /\ MissingFields = {"away_player_Y7"}
    /\ pc = "error"
    /\ raised = "KeyError"
    /\ DOMAIN home_player_pos = 1..7
    /\ DOMAIN away_player_pos = 1..6

\* The map from every slot 1..11 to the (X, Y) pair of the side's position
\* fields of that slot in the match row
IsPositionMapOf(pos, side) ==
    /\ DOMAIN pos = Slots
    /\ \A i \in Slots :
          pos[i] = <<data[Col(side \o "_player_X", i)], data[Col(side \o "_player_Y", i)]>>

\* C12: for every match row that has all 44 position fields, once
\* get_player_positions has run the home and the away position maps each have
\* exactly the keys 1..11, and slot i maps to the pair (X_i, Y_i) of that
\* side's position fields.
C12_PositionMapsComplete ==
    (MissingFields = {} /\ pc \notin {"new", "data"}) =>
       /\ IsPositionMapOf(home_player_pos, "home")
       /\ IsPositionMapOf(away_player_pos, "away")

\* get_player_positions has just run on a complete row whose home slot 3 is at
\* (1, 4) and whose away slot 6 is the goalkeeper
C12_Witness ==
    /\ MissingFields = {}
    /\ pc = "positions"
    /\ DOMAIN home_player_pos = Slots
    /\ home_player_pos[3] = <<1, 4>>
    /\ away_player_pos[6] = <<1, 1>>

----------------------------------------------------------------------------
(* Claims about repeated lookups, under SpecLookup *)

\* C13: the snapshot lookup is idempotent. Once a Player or a Team has been
\* looked up, calling the lookup again on the same object with the same table,
\* id and cutoff returns the snapshot the first call returned, any number of
\* times, and no call changes the attribute tables.
C13_LookupIdempotent ==
    [][/\ player_data' = player_data
       /\ team_data' = team_data
       /\ PlayerLookedUp => player'.attributes = player.attributes
       /\ TeamLookedUp => latest_entry' = latest_entry]_vars

\* Both lookups have been called MaxCalls times on a table where player 1 and
\* team 1 have an entry before the cutoff
C13_Witness ==
    /\ lpc.player_calls = MaxCalls
    /\ lpc.team_calls = MaxCalls
    /\ MaxCalls >= 2
    /\ player.player_id = 1
    /\ team.id_code = 1
    /\ RowsBefore(player_data, "player_api_id", 1) # {}
    /\ "overall_rating" \in DOMAIN player.attributes
    /\ Len(latest_entry.rows) = 1

----------------------------------------------------------------------------
(* Claims about two records processed side by side, under SpecTwo *)

\* side with the snapshot of every Player fetched from the player table
FetchedSide(side) ==
    [players |-> [i \in 1..Len(side.players) |->
                     [side.players[i] EXCEPT !.attributes =
                         PlayerAttributes(player_data, date, side.players[i].player_id,
                                          "player_api_id")]],
     goaly |-> [side.goaly EXCEPT !.attributes =
                   PlayerAttributes(player_data, date, side.goaly.player_id,
                                    "player_api_id")]]

\* The features of mode that the extraction of row yields when the row is
\* processed on its own: positions, ids, snapshots, export
AloneAtts(row, mode) ==
    LET home == FetchedSide(SidePlayers(row, "home", FirstGoaly(HomePositions(row))))
        away == FetchedSide(SidePlayers(row, "away", FirstGoaly(AwayPositions(row))))
    IN ExportAtts(home, away, Cols, mode)

\* C14: match records are processed independently. However the extraction
\* steps of two records on two MatchPlayers objects are interleaved, every
\* export of either object holds the features its own record yields when
\* processed alone, and no step changes a match row, the player table or the
\* cutoff date.
C14_RecordsIndependent ==
    [][/\ data' = data
       /\ second'.data = second.data
       /\ player_data' = player_data
       /\ date' = date
       /\ how' # "none" => atts' = AloneAtts(data, how')
       /\ second'.how # "none" => second'.atts = AloneAtts(second.data, second'.how)]_vars

\* Both objects have exported, the first in avg mode and the second in all
\* mode, from rows with different goalkeeper slots, and the features differ
C14_Witness ==
    /\ second.pc = "ids"
    /\ how = "avg"
    /\ second.how = "all"
    /\ data # second.data
    /\ atts["overall_rating_H_gk"] # second.atts["overall_rating_H_gk"]
    /\ atts = AloneAtts(data, "avg")
    /\ second.atts = AloneAtts(second.data, "all")

----------------------------------------------------------------------------
(* Claims about several goalkeeper slots on a side, under SpecIds *)

\* The lowest-numbered slot of the side at (1, 1)
LowestAtOneOne(side) ==
    CHOOSE s \in SlotsAtOneOne(side) : \A t \in SlotsAtOneOne(side) : s <= t

\* The side's goalkeeper is the player of its lowest slot at (1, 1), and its
\* field list is the ten other slots, every other slot at (1, 1) among them
LowestIsGoaly(side_players, side) ==
    /\ side_players.goaly.player_id = data[Col(side \o "_player_", LowestAtOneOne(side))]
    /\ IsFieldListOf(side_players.players, side, LowestAtOneOne(side))
    /\ \A s \in SlotsAtOneOne(side) \ {LowestAtOneOne(side)} :
          \E k \in 1..Len(side_players.players) :
             side_players.players[k].player_id = data[Col(side \o "_player_", s)]

----------------------------------------------------------------------------
(* Claims about the shape of the stored snapshot, under SpecLookup *)

\* v is one scalar, a number or NaN, not a dict
IsScalar(v) == v.kind \in {"num", "nan"}

\* C16: whenever at least one entry of the player is dated before the cutoff,
\* the snapshot Player.get_player_attributes stores maps every attribute to one
\* scalar value, all taken from a single entry of the player dated before the
\* cutoff; also when two or more entries share the latest date.
C16_SnapshotIsScalarEntry ==
    (PlayerLookedUp /\ RowsBefore(player_data, "player_api_id", player.player_id) # {})
       => /\ DOMAIN player.attributes = player_data.columns
          /\ \A c \in DOMAIN player.attributes : IsScalar(player.attributes[c])
          /\ \E i \in RowsBefore(player_data, "player_api_id", player.player_id) :
                \A c \in DOMAIN player.attributes :
                   player.attributes[c] = player_data.rows[i].row[c]

====
